---- MODULE Spec2Model ----
(***************************************************************************)
(* Model of bot.py: the Telegram control handler (button_callback), the    *)
(* two background loops (price_alert_loop, reminder_loop) and the two      *)
(* global task handles (monitoring_task, reminder_task).                   *)
(*                                                                         *)
(* Every coroutine is cut at its await expressions: one action of the      *)
(* model is the code that runs between two suspension points.  The asyncio *)
(* scheduler may run any ready coroutine, hence the actions interleave.    *)
(* This includes invocations of button_callback: the handler holds no lock *)
(* and suspends in edit_message_text, so a second click can be handled     *)
(* while the first is suspended whenever the Application dispatches        *)
(* updates concurrently; one handler at a time is a special case.          *)
(***************************************************************************)
EXTENDS Integers, Sequences, FiniteSets, Bags, TLC

VARIABLES monitoring_task, reminder_task, tasks, handlers, last, chain, events,
          env, app, probe

vars == <<monitoring_task, reminder_task, tasks, handlers, last, chain, events,
          env, app, probe>>

(***************************************************************************)
(* Bounds of the model.                                                    *)
(***************************************************************************)
\* events of the environment in one behaviour: button clicks delivered to
\* button_callback, blocks the node produces, and awaited calls that fail
\* (an exception, a failed connection check)
MaxEvents == 4

(***************************************************************************)
(* Configuration from the environment (bot.py lines 16-18, 36-44).         *)
(* A string is a sequence of one-character strings.                        *)
(***************************************************************************)
\* None: what os.getenv returns for a variable that is not set
None == << "None" >>

\* the default of os.getenv("TELEGRAM_BOT_TOKEN", ...) at line 16 (a bot
\* token written in the source, shortened)
DefaultToken == << "8", "3", ":", "A" >>

\* os.getenv(name, default) for the value v the environment holds for name
Getenv(v, default) == IF v = None THEN default ELSE v

TELEGRAM_BOT_TOKEN == Getenv(env.TELEGRAM_BOT_TOKEN, DefaultToken)

TELEGRAM_CHAT_ID == Getenv(env.TELEGRAM_CHAT_ID, None)

QUICKNODE_BSC_URL == Getenv(env.QUICKNODE_BSC_URL, None)

\* `not v` for a value that is None or a string
Not(v) == v = None \/ v = << >>

\* s.startswith(p)
StartsWith(s, p) == Len(s) >= Len(p) /\ SubSeq(s, 1, Len(p)) = p

\* validate_config(): the exception it raises, "ok" when it returns
validate_config ==
    IF Not(TELEGRAM_BOT_TOKEN) THEN "ValueError"
    ELSE IF Not(TELEGRAM_CHAT_ID) THEN "ValueError"
    ELSE IF Not(QUICKNODE_BSC_URL)
            \/ ~StartsWith(QUICKNODE_BSC_URL, << "w", "s", "s", ":", "/", "/" >>)
         THEN "ValueError"
    ELSE "ok"

\* values the environment may hold for the three variables
TokenValues == { None, << >>, << "7", "1", ":", "B" >> }

ChatValues == { None, << >>, << "@", "c" >> }

UrlValues ==
    { None, << >>,
      << "h", "t", "t", "p", "s", ":", "/", "/", "n" >>,
      << "w", "s", "s", ":", "/", "/", "n" >> }

Environments ==
    [TELEGRAM_BOT_TOKEN : TokenValues, TELEGRAM_CHAT_ID : ChatValues,
     QUICKNODE_BSC_URL : UrlValues]

\* an environment with all three variables set as the comments of lines
\* 17-18 ask
GoodEnvironment ==
    [TELEGRAM_BOT_TOKEN |-> << "7", "1", ":", "B" >>,
     TELEGRAM_CHAT_ID |-> << "@", "c" >>,
     QUICKNODE_BSC_URL |-> << "w", "s", "s", ":", "/", "/", "n" >>]

(***************************************************************************)
(* Constants of the purchase test (bot.py lines 21-27).                    *)
(***************************************************************************)
\* "0x2119de8f257d27662991198389E15Bf8d1F4aB24", one character per element
TOKEN_CONTRACT_ADDRESS ==
    << "0","x","2","1","1","9","d","e","8","f","2","5","7","d","2","7","6","6",
       "2","9","9","1","1","9","8","3","8","9","E","1","5","B","f","8","d","1",
       "F","4","a","B","2","4" >>

\* base of the two-limb representation <<hi, lo>> of a wei amount
\* (Python integers are unbounded; hi * 10^9 + lo keeps the exact value)
LimbBase == 10^9

\* Web3.to_wei(0.025, 'ether') = 25 * 10^15 wei = 25000000 * 10^9 + 0
MIN_PURCHASE_WEI == <<25000000, 0>>

\* str.lower() on one character of an address
LowerChar(c) ==
    CASE c = "A" -> "a" [] c = "B" -> "b" [] c = "C" -> "c"
      [] c = "D" -> "d" [] c = "E" -> "e" [] c = "F" -> "f"
      [] c = "X" -> "x" [] OTHER -> c

\* str.lower()
Lower(s) == [i \in 1..Len(s) |-> LowerChar(s[i])]

\* a > b on exact wei amounts
WeiGreater(a, b) == a[1] > b[1] \/ (a[1] = b[1] /\ a[2] > b[2])

\* a >= b on exact wei amounts
WeiGE(a, b) == a[1] > b[1] \/ (a[1] = b[1] /\ a[2] >= b[2])

\* a - 1 on wei amounts (a > 0)
WeiPred(a) == IF a[2] > 0 THEN <<a[1], a[2] - 1>> ELSE <<a[1] - 1, LimbBase - 1>>

\* tx.to of a contract-creation transaction (None); falsy like ""
NoAddress == << >>

\* line 200: tx.to and tx.to.lower() == TOKEN_CONTRACT_ADDRESS.lower()
\*           and tx.value >= MIN_PURCHASE_WEI
Matches(tx) ==
    /\ tx.to # NoAddress
    /\ Lower(tx.to) = Lower(TOKEN_CONTRACT_ADDRESS)
    /\ WeiGE(tx.value, MIN_PURCHASE_WEI)

(***************************************************************************)
(* The node: transactions and blocks the model draws from.                 *)
(***************************************************************************)
\* another contract: differs from the token address in its last character
OtherAddress == [TOKEN_CONTRACT_ADDRESS EXCEPT ![42] = "5"]

\* a purchase of 0.03 BNB sent to the checksummed token address
TxBuy == [to |-> TOKEN_CONTRACT_ADDRESS, value |-> <<30000000, 0>>]
\* a purchase of exactly the minimum sent to the lower-cased token address
TxBuyMin == [to |-> Lower(TOKEN_CONTRACT_ADDRESS), value |-> MIN_PURCHASE_WEI]
\* one wei below the minimum
TxSmall == [to |-> TOKEN_CONTRACT_ADDRESS, value |-> WeiPred(MIN_PURCHASE_WEI)]
\* a large payment to another contract
TxOther == [to |-> OtherAddress, value |-> <<30000000, 0>>]
\* a contract creation
TxCreate == [to |-> NoAddress, value |-> <<30000000, 0>>]

\* the blocks the node can produce (block.transactions)
BlockCatalogue ==
    << <<TxBuy, TxSmall, TxBuyMin>>,
       <<TxCreate, TxOther>> >>

\* block.transactions of the block at height h
BlockTxs(h) == BlockCatalogue[chain[h]]

\* transactions the purchase test is tried on: tx.to is None, the token
\* address in three spellings, other addresses, a truncated address
ProbeAddresses ==
    { NoAddress,
      TOKEN_CONTRACT_ADDRESS,
      Lower(TOKEN_CONTRACT_ADDRESS),
      [TOKEN_CONTRACT_ADDRESS EXCEPT ![2] = "X", ![7] = "D", ![29] = "e"],
      OtherAddress,
      Lower(OtherAddress),
      [TOKEN_CONTRACT_ADDRESS EXCEPT ![3] = "3"],
      SubSeq(TOKEN_CONTRACT_ADDRESS, 1, 41) }

\* tx.value in wei: around zero, around the minimum, above it
ProbeValues ==
    { <<0, 0>>, <<0, 1>>, <<0, LimbBase - 1>>, <<24999999, 0>>,
      WeiPred(MIN_PURCHASE_WEI), MIN_PURCHASE_WEI, <<25000000, 1>>,
      <<25000001, 0>>, <<30000000, 0>> }

\* no transaction is being tried
Idle == [tx |-> TxCreate, verdict |-> "idle"]

(***************************************************************************)
(* Tasks (asyncio.Task objects running one of the two loops).              *)
(***************************************************************************)
Loops == {"alert", "reminder"}

Actions == {"start_monitoring", "stop_monitoring", "start_reminder", "stop_reminder"}

IsStart(a) == a \in {"start_monitoring", "start_reminder"}

LoopOf(a) == IF a \in {"start_monitoring", "stop_monitoring"} THEN "alert" ELSE "reminder"

\* the global that holds the task of loop k
Handle(k) == IF k = "alert" THEN monitoring_task ELSE reminder_task

TaskIds == 1..Len(tasks)

\* task.done()
Done(t) == tasks[t].pc = "done"

\* the test without `not X_task.done()`
RunningIgnoresDone(id) == id # 0

\* `X_task and not X_task.done()` for a handle value id (0 is None)
Running(id) == id # 0 /\ ~Done(id)

\* the instances of loop k that exist and have not finished
Live(k) == {t \in TaskIds : tasks[t].kind = k /\ ~Done(t)}

\* asyncio.create_task(loop(context.bot)): a task that has not run yet
NewTask(k) ==
    [kind |-> k, pc |-> "new", cancel |-> FALSE, result |-> "none",
     seen |-> 0, pending |-> << >>, txi |-> 0, trace |-> << >>, reminded |-> FALSE,
     elapsed |-> FALSE]

\* the coroutine of task tk ends with result r
Finish(tk, r) ==
    [tk EXCEPT !.pc = "done", !.result = r, !.seen = 0, !.pending = << >>,
               !.txi = 0, !.trace = << >>, !.reminded = FALSE, !.elapsed = FALSE]

\* what is remembered of the control event of a loop that ended last
\* (created: the task it created, 0 when it created none)
Ended(a, status, outcome, created) ==
    [action |-> a, status |-> status, outcome |-> outcome, created |-> created]

\* the module has been imported: no task, no handler, no block yet
Loaded ==
    /\ monitoring_task = 0
    /\ reminder_task = 0
    /\ tasks = << >>
    /\ handlers = EmptyBag
    /\ last = [k \in Loops |-> Ended("none", "none", "none", 0)]
    /\ chain = << >>
    /\ events = 0

\* application.run_polling() is dispatching updates to the handlers
Serving == app = "polling"

\* the bot is running with a complete configuration: main() has validated
\* it and has reached run_polling (lines 219-224)
Init ==
    /\ Loaded
    /\ env = GoodEnvironment
    /\ app = "polling"
    /\ probe = Idle

(***************************************************************************)
(* main (lines 216-228).                                                   *)
(***************************************************************************)
\* the process starts in any environment, main() has not run yet
StartupInit ==
    /\ Loaded
    /\ env \in Environments
    /\ app = "main"
    /\ probe = Idle

\* main() runs: validate_config() raises ValueError, which main catches at
\* line 225 and returns ("exited"), or the application is built, the
\* handlers are added and run_polling serves them
MainRuns ==
    /\ app = "main"
    /\ app' = IF validate_config = "ok" THEN "polling" ELSE "exited"
    /\ UNCHANGED <<monitoring_task, reminder_task, tasks, handlers, last, chain,
                   events, env, probe>>

\* one more event of the environment
Event ==
    /\ events < MaxEvents
    /\ events' = events + 1

(***************************************************************************)
(* The node produces a block.                                              *)
(***************************************************************************)
NewBlock(b) ==
    /\ Event
    /\ chain' = Append(chain, b)
    /\ UNCHANGED <<monitoring_task, reminder_task, tasks, handlers, last>>
    /\ UNCHANGED <<env, app, probe>>

(***************************************************************************)
(* button_callback (lines 85-137).                                         *)
(*                                                                         *)
(* The handler reads and writes nothing before `await query.answer()`      *)
(* returns, so the arrival of the click and the return of answer() are one *)
(* step.  The next suspension point is the await of edit_message_text; the *)
(* code after it (create_task for a start) runs when that await returns.   *)
(***************************************************************************)
\* the handle tested by the branch of action a (lines 104, 111, 120, 127)
CheckedHandle(a) == Handle(LoopOf(a))

\* the handle cancelled by a stop action (lines 112, 128)
CancelledHandle(a) == Handle(LoopOf(a))

\* the text passed to edit_message_text by the branch of action a
StatusFor(a) ==
    IF IsStart(a)
    THEN IF Running(CheckedHandle(a)) THEN "already_running" ELSE "starting"
    ELSE IF Running(CheckedHandle(a)) THEN "stopped" ELSE "not_running"

\* the stop branch without its task.cancel()
CancelForgotten(ts, id) == ts

\* task.cancel(): a cancellation request on task id
Cancel(ts, id) == [ts EXCEPT ![id].cancel = TRUE]

\* a handler invocation suspended in `await query.edit_message_text(...)`
\* with the status text it passed
NewHandler(a) == [action |-> a, status |-> StatusFor(a)]

\* the click a arrives, answer() returns, the branch runs up to its await
\* (a stop that finds its task running has called task.cancel() by then)
Click(a) ==
    /\ Serving
    /\ Event
    /\ handlers' = handlers (+) SetToBag({NewHandler(a)})
    /\ tasks' = IF ~IsStart(a) /\ Running(CheckedHandle(a))
                THEN Cancel(tasks, CancelledHandle(a))
                ELSE tasks
    /\ UNCHANGED <<monitoring_task, reminder_task, last, chain, env, app, probe>>

\* the click a arrives and `await query.answer()` raises: line 89 is outside
\* the try block, the exception leaves button_callback
ClickAnswerFails(a) ==
    /\ Serving
    /\ Event
    /\ last' = [last EXCEPT ![LoopOf(a)] = Ended(a, "none", "raised", 0)]
    /\ UNCHANGED <<monitoring_task, reminder_task, tasks, handlers, chain>>
    /\ UNCHANGED <<env, app, probe>>

\* the start branch stores the task in the global of the other loop
WrongGlobalAssigned(a) == IF LoopOf(a) = "alert" THEN "reminder" ELSE "alert"

\* the global assigned by the start branch of action a (lines 108, 124)
AssignedLoop(a) == LoopOf(a)

\* the start branch hands the coroutine of the other loop to create_task
WrongLoopCreated(a) == IF LoopOf(a) = "alert" THEN "reminder" ELSE "alert"

\* the loop coroutine handed to create_task by action a (lines 108, 124)
CreatedLoop(a) == LoopOf(a)

\* the handler invocations in flight, each a record of NewHandler
InFlight == BagToSet(handlers)

\* the handlers in flight without one invocation h
Without(h) == handlers (-) SetToBag({h})

\* edit_message_text returns in a handler h; a start that found no running
\* task now creates one and stores it in the global
EditDone(h) ==
    /\ h \in InFlight
    /\ LET create == h.status = "starting"
           id == Len(tasks) + 1
       IN /\ tasks' = IF create THEN Append(tasks, NewTask(CreatedLoop(h.action)))
                      ELSE tasks
          /\ monitoring_task' = IF create /\ AssignedLoop(h.action) = "alert"
                                THEN id ELSE monitoring_task
          /\ reminder_task' = IF create /\ AssignedLoop(h.action) = "reminder"
                              THEN id ELSE reminder_task
    /\ last' = [last EXCEPT ![LoopOf(h.action)] =
                   Ended(h.action, h.status, "delivered",
                         IF h.status = "starting" THEN Len(tasks) + 1 ELSE 0)]
    /\ handlers' = Without(h)
    /\ UNCHANGED <<chain, events, env, app, probe>>

\* edit_message_text raises in a handler h: caught at line 134 or 136, the
\* rest of the branch (create_task) is skipped
EditFails(h) ==
    /\ h \in InFlight
    /\ Event
    /\ last' = [last EXCEPT ![LoopOf(h.action)] = Ended(h.action, h.status, "failed", 0)]
    /\ handlers' = Without(h)
    /\ UNCHANGED <<monitoring_task, reminder_task, tasks, chain, env, app, probe>>

(***************************************************************************)
(* Steps common to both loops.                                             *)
(***************************************************************************)
\* task t is replaced by tk, everything but the tasks is left alone
SetTask(t, tk) ==
    /\ tasks' = [tasks EXCEPT ![t] = tk]
    /\ UNCHANGED <<monitoring_task, reminder_task, handlers, last, chain>>
    /\ UNCHANGED <<env, app, probe>>

\* the states in which a CancelledError is caught by the loop itself:
\* the awaits inside `try:` of price_alert_loop (lines 192-206) and of
\* reminder_loop (lines 170-173)
CatchesCancel(pc) == pc \in {"poll", "fetch", "send", "sleep", "rsend", "rsleep"}

\* the result of the task when CancelledError is thrown into it at pc:
\* caught at line 207 or 174 (the coroutine returns), or not caught
\* (lines 184-189 are outside the try, line 211 is inside an except clause)
CancelResult(pc) == IF CatchesCancel(pc) THEN "stopped" ELSE "cancelled"

\* the event loop resumes task t after task.cancel(): CancelledError is
\* thrown at the await the task is suspended in (or at its start)
TaskCancelled(t) ==
    /\ t \in TaskIds
    /\ ~Done(t)
    /\ tasks[t].cancel
    /\ SetTask(t, Finish(tasks[t], CancelResult(tasks[t].pc)))
    /\ UNCHANGED events

\* a step of task t that is not a cancellation: the task is suspended at pc
\* and no cancellation is pending
AtAwait(t, pc) ==
    /\ t \in TaskIds
    /\ tasks[t].pc = pc
    /\ ~tasks[t].cancel

(***************************************************************************)
(* price_alert_loop (lines 179-213).                                       *)
(***************************************************************************)
\* the first run of the task: up to `await w3.is_connected()` (line 184)
AlertStart(t) ==
    /\ AtAwait(t, "new")
    /\ tasks[t].kind = "alert"
    /\ SetTask(t, [tasks[t] EXCEPT !.pc = "connect"])
    /\ UNCHANGED events

\* is_connected() returns True: on to `await w3.eth.create_filter('latest')`
ConnectOk(t) ==
    /\ AtAwait(t, "connect")
    /\ SetTask(t, [tasks[t] EXCEPT !.pc = "mkfilter"])
    /\ UNCHANGED events

\* is_connected() returns False and the loop goes on to create its filter
ConnectRefusedGoesOn(t) ==
    /\ AtAwait(t, "connect")
    /\ Event
    /\ SetTask(t, [tasks[t] EXCEPT !.pc = "mkfilter"])

\* is_connected() returns False: lines 185-186, the coroutine returns
ConnectRefused(t) ==
    /\ AtAwait(t, "connect")
    /\ Event
    /\ SetTask(t, Finish(tasks[t], "refused"))

\* is_connected() raises: line 184 is outside the try, the task ends with
\* the exception
ConnectRaises(t) ==
    /\ AtAwait(t, "connect")
    /\ Event
    /\ SetTask(t, Finish(tasks[t], "raised"))

\* create_filter('latest') returns: the filter reports the blocks after the
\* current head; the loop enters the try and awaits get_new_entries()
FilterOk(t) ==
    /\ AtAwait(t, "mkfilter")
    /\ SetTask(t, [tasks[t] EXCEPT !.pc = "poll", !.seen = Len(chain),
                                  !.trace = Append(@, <<"filter", Len(chain), 0>>)])
    /\ UNCHANGED events

\* create_filter raises: line 189 is outside the try
FilterRaises(t) ==
    /\ AtAwait(t, "mkfilter")
    /\ Event
    /\ SetTask(t, Finish(tasks[t], "raised"))

\* the first index i >= from with a matching transaction in txs, 0 if none
\* (lines 199-200)
NextMatch(txs, from) ==
    LET hits == {i \in from..Len(txs) : Matches(txs[i])}
    IN IF hits = {} THEN 0 ELSE CHOOSE i \in hits : \A j \in hits : i <= j

\* the body of `for block_hash in new_blocks` ends for the first pending
\* block: the next block is fetched, or the loop sleeps (line 206)
NextBlock(tk) ==
    LET rest == Tail(tk.pending)
    IN [tk EXCEPT !.pending = rest, !.txi = 0,
                  !.pc = IF rest = << >> THEN "sleep" ELSE "fetch",
                  !.trace = Append(@, <<"left", Head(tk.pending), 0>>)]

\* `for tx in block.transactions` goes on at index from: the next matching
\* transaction is handed to send_telegram_alert (line 203), which suspends
\* in send_photo; without one the block is finished
ScanFrom(tk, from) ==
    LET h == Head(tk.pending)
        i == NextMatch(BlockTxs(h), from)
    IN IF i # 0
       THEN [tk EXCEPT !.pc = "send", !.txi = i,
                       !.trace = Append(@, <<"send", h, i>>)]
       ELSE NextBlock(tk)

\* the block hashes get_new_entries() returns to a filter that has
\* reported the blocks up to height seen
NewEntries(seen) == [i \in 1..(Len(chain) - seen) |-> seen + i]

\* the blocks the for loop iterates over after get_new_entries()
PolledBlocks(seen) == NewEntries(seen)

\* get_new_entries() returns (line 194): the for loop starts on the new
\* blocks, or the loop sleeps
PollOk(t) ==
    /\ AtAwait(t, "poll")
    /\ LET new == PolledBlocks(tasks[t].seen)
       IN SetTask(t, [tasks[t] EXCEPT !.seen = Len(chain), !.pending = new,
                                     !.pc = IF new = << >> THEN "sleep" ELSE "fetch"])
    /\ UNCHANGED events

\* the state of the loop after an exception reaches line 209
AfterLoopError(tk) ==
    [tk EXCEPT !.pc = "backoff", !.pending = << >>, !.txi = 0,
               !.trace = Append(@, <<"error", 0, 0>>)]

\* get_new_entries() raises: caught at line 209, `await asyncio.sleep(15)`
PollRaises(t) ==
    /\ AtAwait(t, "poll")
    /\ Event
    /\ SetTask(t, AfterLoopError(tasks[t]))

\* get_block returns the block (line 197): its transactions are scanned
FetchOk(t) ==
    /\ AtAwait(t, "fetch")
    /\ LET h == Head(tasks[t].pending)
       IN SetTask(t, ScanFrom([tasks[t] EXCEPT !.trace = Append(@, <<"fetched", h, 0>>)], 1))
    /\ UNCHANGED events

\* the state of the loop after get_block raised: caught at line 204
AfterFetchError(tk) ==
    NextBlock([tk EXCEPT !.trace = Append(@, <<"fetchfail", Head(tk.pending), 0>>)])

\* get_block raises
FetchRaises(t) ==
    /\ AtAwait(t, "fetch")
    /\ Event
    /\ SetTask(t, AfterFetchError(tasks[t]))

\* send_photo returns (line 151): the scan goes on after the transaction
SendOk(t) ==
    /\ AtAwait(t, "send")
    /\ SetTask(t, ScanFrom(tasks[t], tasks[t].txi + 1))
    /\ UNCHANGED events

\* the state of the loop after send_photo raised TelegramError: caught in
\* send_telegram_alert (line 153), which returns normally
AfterTelegramError(tk) ==
    ScanFrom([tk EXCEPT !.trace = Append(@, <<"tgerror", Head(tk.pending), tk.txi>>)],
             tk.txi + 1)

\* send_photo raises TelegramError
SendTelegramError(t) ==
    /\ AtAwait(t, "send")
    /\ Event
    /\ SetTask(t, AfterTelegramError(tasks[t]))

\* the exception of send_photo reaches line 209 instead of line 204
SendErrorEndsLoop(tk) ==
    [tk EXCEPT !.pc = "backoff", !.pending = << >>, !.txi = 0,
               !.trace = Append(@, <<"senderror", Head(tk.pending), tk.txi>>)]

\* the state of the loop after send_photo raised another exception: it
\* leaves send_telegram_alert and is caught at line 204, which ends the
\* body of the for loop for this block
AfterSendError(tk) ==
    NextBlock([tk EXCEPT !.trace = Append(@, <<"senderror", Head(tk.pending), tk.txi>>)])

\* send_photo raises an exception that is no TelegramError
SendRaises(t) ==
    /\ AtAwait(t, "send")
    /\ Event
    /\ SetTask(t, AfterSendError(tasks[t]))

\* asyncio.sleep(2) returns (line 206): next iteration of `while True`
SleepDone(t) ==
    /\ AtAwait(t, "sleep")
    /\ SetTask(t, [tasks[t] EXCEPT !.pc = "poll"])
    /\ UNCHANGED events

\* the state of the loop after asyncio.sleep(15) returned (line 211): the
\* except clause ends, the finally clause runs and the coroutine returns
AfterBackoff(tk) == Finish(tk, "gaveup")

\* asyncio.sleep(15) returns
BackoffDone(t) ==
    /\ AtAwait(t, "backoff")
    /\ SetTask(t, AfterBackoff(tasks[t]))
    /\ UNCHANGED events

(***************************************************************************)
(* reminder_loop (lines 167-177) and send_reminder_message (156-164).      *)
(***************************************************************************)
\* the first run of the task: into the try and `while True`, up to the
\* await of send_message in send_reminder_message (line 161)
ReminderFirstStep(tk) == [tk EXCEPT !.pc = "rsend", !.reminded = TRUE]

ReminderStart(t) ==
    /\ AtAwait(t, "new")
    /\ tasks[t].kind = "reminder"
    /\ SetTask(t, ReminderFirstStep(tasks[t]))
    /\ UNCHANGED events

\* send_message returns: `await asyncio.sleep(REMINDER_INTERVAL_SECONDS)`
ReminderSent(t) ==
    /\ AtAwait(t, "rsend")
    /\ SetTask(t, [tasks[t] EXCEPT !.pc = "rsleep"])
    /\ UNCHANGED events

\* send_message raises TelegramError: caught at line 163
ReminderTelegramError(t) ==
    /\ AtAwait(t, "rsend")
    /\ Event
    /\ SetTask(t, [tasks[t] EXCEPT !.pc = "rsleep"])

\* send_message raises another exception: reminder_loop has no handler for
\* it, the task ends with the exception
ReminderRaises(t) ==
    /\ AtAwait(t, "rsend")
    /\ Event
    /\ SetTask(t, Finish(tasks[t], "raised"))

\* the reminder interval has elapsed: the next reminder is sent
IntervalElapsed(t) ==
    /\ AtAwait(t, "rsleep")
    /\ SetTask(t, [tasks[t] EXCEPT !.pc = "rsend", !.elapsed = TRUE])
    /\ UNCHANGED events

(***************************************************************************)
(* The specification.                                                      *)
(***************************************************************************)
\* the positions of tasks
Slots == 1..MaxEvents

\* the shapes of handler invocations
Handlers ==
    [action : Actions, status : {"starting", "already_running", "stopped", "not_running"}]

Next ==
    \/ \E b \in 1..Len(BlockCatalogue) : NewBlock(b)
    \/ \E a \in Actions : Click(a)
    \/ \E a \in Actions : ClickAnswerFails(a)
    \/ \E h \in Handlers : EditDone(h)
    \/ \E h \in Handlers : EditFails(h)
    \/ \E t \in Slots : TaskCancelled(t)
    \/ \E t \in Slots : AlertStart(t)
    \/ \E t \in Slots : ConnectOk(t)
    \/ \E t \in Slots : ConnectRefused(t)
    \/ \E t \in Slots : ConnectRaises(t)
    \/ \E t \in Slots : FilterOk(t)
    \/ \E t \in Slots : FilterRaises(t)
    \/ \E t \in Slots : PollOk(t)
    \/ \E t \in Slots : PollRaises(t)
    \/ \E t \in Slots : FetchOk(t)
    \/ \E t \in Slots : FetchRaises(t)
    \/ \E t \in Slots : SendOk(t)
    \/ \E t \in Slots : SendTelegramError(t)
    \/ \E t \in Slots : SendRaises(t)
    \/ \E t \in Slots : SleepDone(t)
    \/ \E t \in Slots : BackoffDone(t)
    \/ \E t \in Slots : ReminderStart(t)
    \/ \E t \in Slots : ReminderSent(t)
    \/ \E t \in Slots : ReminderTelegramError(t)
    \/ \E t \in Slots : ReminderRaises(t)
    \/ \E t \in Slots : IntervalElapsed(t)

Spec == Init /\ [][Next]_vars

\* the purchase test of line 200 on its own: any transaction of the
\* bounded sets, not yet tested
MatchInit ==
    /\ Loaded
    /\ env = GoodEnvironment
    /\ app = "polling"
    /\ probe \in [tx : [to : ProbeAddresses, value : ProbeValues],
                  verdict : {"untested"}]

\* `if tx.to and tx.to.lower() == ... and tx.value >= MIN_PURCHASE_WEI:`
\* is evaluated for the transaction
MatchTest ==
    /\ probe.verdict = "untested"
    /\ probe' = [probe EXCEPT !.verdict = IF Matches(probe.tx) THEN "match"
                                                               ELSE "no_match"]
    /\ UNCHANGED <<monitoring_task, reminder_task, tasks, handlers, last, chain,
                   events, env, app>>

MatchNext == MatchTest

MatchSpec == MatchInit /\ [][MatchNext]_vars

\* the process from its start: main() first, then what Next describes
StartupNext ==
    \/ MainRuns
    \/ Next

StartupSpec == StartupInit /\ [][StartupNext]_vars

(***************************************************************************)
(* Vocabulary of the properties.                                           *)
(***************************************************************************)
StartActions == {"start_monitoring", "start_reminder"}

StopActions == {"stop_monitoring", "stop_reminder"}

Statuses == {"starting", "already_running", "stopped", "not_running"}

\* this step is the arrival of a click a whose handler passes status s to
\* edit_message_text
Arrives(a, s) == handlers' = handlers (+) SetToBag({[action |-> a, status |-> s]})

\* this step ends the handler invocation h (edit_message_text returned or
\* raised)
Ends(h) == h \in InFlight /\ handlers' = Without(h)

\* a handler of loop k is in flight
Busy(k) == \E h \in InFlight : LoopOf(h.action) = k

\* a click a arrives right after a start of the same loop that reported
\* "starting" and created its task: no control event of the loop ended in
\* between and none is in flight
SecondStart(a) ==
    /\ a \in StartActions
    /\ last[LoopOf(a)] = Ended(a, "starting", "delivered", last[LoopOf(a)].created)
    /\ ~Busy(LoopOf(a))

(***************************************************************************)
(* C1: for each loop identity, in every reachable state (handlers that     *)
(* interleave at the await of the status message included), at most one    *)
(* instance of the loop is live.                                           *)
(***************************************************************************)
C1_AtMostOneLive == \A k \in Loops : Cardinality(Live(k)) <= 1

\* the instances of loop k created so far
Created(k) == {t \in TaskIds : tasks[t].kind = k}

LoopUntouched(k) ==
    /\ Handle(k)' = Handle(k)
    /\ \A t \in TaskIds : tasks[t].kind = k => tasks'[t] = tasks[t]
    /\ \A t \in 1..Len(tasks') : t \notin TaskIds => tasks'[t].kind # k

(***************************************************************************)
(* C3: a stop of a loop that has no live instance (never started, or its   *)
(* task has finished) passes "not running" as its status, cancels nothing, *)
(* leaves both handles and every task as they are, and no exception leaves *)
(* the handler when the status message returns or fails.                   *)
(***************************************************************************)
C3_StopWhenNotRunning ==
    [][/\ \A a \in StopActions : \A s \in Statuses :
             (Arrives(a, s) /\ Live(LoopOf(a)) = {})
                => /\ s = "not_running"
                   /\ tasks' = tasks
                   /\ monitoring_task' = monitoring_task
                   /\ reminder_task' = reminder_task
       /\ \A h \in InFlight :
             (Ends(h) /\ h.status = "not_running")
                => /\ tasks' = tasks
                   /\ monitoring_task' = monitoring_task
                   /\ reminder_task' = reminder_task
                   /\ last'[LoopOf(h.action)].status = "not_running"
                   /\ last'[LoopOf(h.action)].outcome \in {"delivered", "failed"}]_vars

\* a stop is in flight with "not running" for a loop whose task was
\* started and has finished
C3_Witness ==
    \E h \in InFlight :
        /\ h.action \in StopActions
        /\ h.status = "not_running"
        /\ Handle(LoopOf(h.action)) # 0
        /\ Done(Handle(LoopOf(h.action)))
        /\ ~tasks[Handle(LoopOf(h.action))].cancel

(***************************************************************************)
(* C4: a stop of a loop whose task is running requests the cancellation of *)
(* that task and passes "stopped" as its status in the same step, and that *)
(* step does not wait for the task: the task is exactly where it was, not  *)
(* done, with the cancellation pending.                                    *)
(***************************************************************************)
C4_StopRequestsCancel ==
    [][\A a \in StopActions : \A s \in Statuses :
          (Arrives(a, s) /\ Handle(LoopOf(a)) \in Live(LoopOf(a)))
             => /\ s = "stopped"
                /\ tasks' = [tasks EXCEPT ![Handle(LoopOf(a))].cancel = TRUE]
                /\ ~Done(Handle(LoopOf(a)))']_vars

\* "stopped" has been passed to the status message while the cancelled
\* task is not done
C4_Witness ==
    \E h \in InFlight :
        /\ h.action \in StopActions
        /\ h.status = "stopped"
        /\ Handle(LoopOf(h.action)) \in Live(LoopOf(h.action))
        /\ tasks[Handle(LoopOf(h.action))].cancel

(***************************************************************************)
(* C5: a control event of one loop (the arrival of its click, the failure  *)
(* of its answer, the end of its handler) leaves the other loop's handle   *)
(* and every task of the other loop (its state, its pending cancellation,  *)
(* its pending blocks) unchanged, and creates no task of the other loop.   *)
(***************************************************************************)
C5_OtherLoopUntouched ==
    [][\A k \in Loops : \A o \in Loops \ {k} :
          (\/ \E a \in Actions : \E s \in Statuses : LoopOf(a) = k /\ Arrives(a, s)
           \/ \E h \in InFlight : LoopOf(h.action) = k /\ Ends(h)
           \/ last'[k] # last[k])
             => LoopUntouched(o)]_vars

\* the reminder loop has been stopped while an alert loop instance is at
\* work, untouched by the stop
C5_Witness ==
    /\ \E h \in InFlight : h.action = "stop_reminder" /\ h.status = "stopped"
    /\ monitoring_task # 0
    /\ tasks[monitoring_task].kind = "alert"
    /\ tasks[monitoring_task].pc = "poll"
    /\ ~tasks[monitoring_task].cancel
    /\ reminder_task # 0
    /\ tasks[reminder_task].cancel

(***************************************************************************)
(* Vocabulary of the properties of price_alert_loop.  The trace of a task  *)
(* lists what the loop did: <<"filter", head, 0>>, <<"fetched", h, 0>>,    *)
(* <<"fetchfail", h, 0>>, <<"send", h, i>> (send_telegram_alert called for *)
(* transaction i of block h), <<"tgerror", h, i>>, <<"senderror", h, i>>,  *)
(* <<"left", h, 0>> (the for loop is done with block h), <<"error", 0, 0>>.*)
(***************************************************************************)
\* the alert loop instances that have not finished
LiveAlerts == Live("alert")

\* the event e is in the trace of task t
Did(t, e) == \E n \in 1..Len(tasks[t].trace) : tasks[t].trace[n] = e

\* how often the event e is in the trace of task t
Times(t, e) == Cardinality({n \in 1..Len(tasks[t].trace) : tasks[t].trace[n] = e})

Heights == 1..Len(chain)

\* the dispatch of transaction i of block h failed in task t
DispatchFailed(t, h, i) == Did(t, <<"tgerror", h, i>>) \/ Did(t, <<"senderror", h, i>>)

\* this step of task t is the failure of a dispatch
DispatchFails(t) ==
    /\ t \in LiveAlerts
    /\ tasks[t].pc = "send"
    /\ Len(tasks'[t].trace) > Len(tasks[t].trace)
    /\ tasks'[t].trace[Len(tasks[t].trace) + 1][1] \in {"tgerror", "senderror"}

(***************************************************************************)
(* C6 as stated: the alert loop does not terminate on an exception: a task *)
(* of the loop is done only after its cancellation was requested (or       *)
(* because the connection check answered False at its start).              *)
(***************************************************************************)
C6_TerminatesOnlyOnCancel ==
    \A t \in TaskIds :
        (tasks[t].kind = "alert" /\ Done(t) /\ tasks[t].result # "refused")
           => tasks[t].cancel

(***************************************************************************)
(* C7 as stated: a block whose fetch failed is not skipped: when           *)
(* get_new_entries() returns in a later iteration, the blocks the loop     *)
(* then works on include every block whose fetch failed and that it has    *)
(* not fetched since.                                                      *)
(***************************************************************************)
C7_FailedBlockRetried ==
    [][\A t \in LiveAlerts :
          (tasks[t].pc = "poll" /\ tasks'[t].pc \in {"fetch", "sleep"})
             => \A h \in Heights :
                   (Did(t, <<"fetchfail", h, 0>>) /\ ~Did(t, <<"fetched", h, 0>>))
                      => \E n \in 1..Len(tasks'[t].pending) : tasks'[t].pending[n] = h]_vars

(***************************************************************************)
(* C8 as stated: for every block an alert loop has fetched and left,       *)
(* exactly one send was issued for each matching transaction and none for  *)
(* the others, and no transaction is notified by two loop instances.       *)
(***************************************************************************)
C8_OneSendPerMatch ==
    /\ \A t \in LiveAlerts : \A h \in Heights :
          (Did(t, <<"fetched", h, 0>>) /\ Did(t, <<"left", h, 0>>))
             => \A i \in 1..Len(BlockTxs(h)) :
                   Times(t, <<"send", h, i>>) = IF Matches(BlockTxs(h)[i]) THEN 1 ELSE 0
    /\ \A t \in LiveAlerts : \A u \in LiveAlerts \ {t} : \A h \in Heights :
          \A i \in 1..Len(BlockTxs(h)) :
             ~(Did(t, <<"send", h, i>>) /\ Did(u, <<"send", h, i>>))

(***************************************************************************)
(* C9 as stated: when the dispatch of one matching transaction of a block  *)
(* failed (TelegramError or any other exception), the dispatch of every    *)
(* other matching transaction of the block has been attempted by the time  *)
(* the loop leaves the block.                                              *)
(***************************************************************************)
C9_OtherDispatchesAttempted ==
    \A t \in LiveAlerts : \A h \in Heights :
        (Did(t, <<"left", h, 0>>) /\ \E i \in 1..Len(BlockTxs(h)) : DispatchFailed(t, h, i))
           => \A j \in 1..Len(BlockTxs(h)) :
                 Matches(BlockTxs(h)[j]) => Did(t, <<"send", h, j>>)

\* a block whose dispatch failed is fetched once, each of its transactions
\* is sent at most once, and it is not among the blocks still to fetch
NotReprocessed(t, h) ==
    /\ Times(t, <<"fetched", h, 0>>) + Times(t, <<"fetchfail", h, 0>>) = 1
    /\ \A i \in 1..Len(BlockTxs(h)) : Times(t, <<"send", h, i>>) <= 1
    /\ \A n \in 1..Len(tasks[t].pending) :
          tasks[t].pending[n] = h => (n = 1 /\ tasks[t].pc = "send")

(***************************************************************************)
(* C10: the failure of a dispatch (TelegramError or another exception)     *)
(* leaves the alert loop running, with every following block it has        *)
(* polled still to fetch, and the block of the failed dispatch is never    *)
(* fetched or scanned a second time.                                       *)
(***************************************************************************)
C10_FailedDispatchKeepsLoop ==
    [][/\ \A t \in TaskIds :
             DispatchFails(t)
                => /\ tasks'[t].pc \in {"send", "fetch", "sleep"}
                   /\ tasks'[t].pending \in {tasks[t].pending, Tail(tasks[t].pending)}
                   /\ tasks'[t].seen = tasks[t].seen
       /\ \A t \in LiveAlerts' : \A h \in Heights' :
             (\E i \in 1..Len(BlockTxs(h)') : DispatchFailed(t, h, i)')
                => NotReprocessed(t, h)']_vars

\* after a failed dispatch in block h the loop has fetched block h + 1
C10_Witness ==
    \E t \in LiveAlerts : \E h \in Heights :
        /\ \E i \in 1..Len(BlockTxs(h)) : DispatchFailed(t, h, i)
        /\ Did(t, <<"left", h, 0>>)
        /\ Did(t, <<"fetched", h + 1, 0>>)

(***************************************************************************)
(* Vocabulary of the purchase test.                                        *)
(***************************************************************************)
\* the letters of an address in their two cases
CasePairs ==
    { <<"a", "A">>, <<"b", "B">>, <<"c", "C">>, <<"d", "D">>, <<"e", "E">>,
      <<"f", "F">>, <<"x", "X">> }

\* the characters c and d are the same, ignoring letter case
SameLetter(c, d) == c = d \/ <<c, d>> \in CasePairs \/ <<d, c>> \in CasePairs

\* the addresses a and b are equal, ignoring letter case
SameIgnoringCase(a, b) ==
    /\ Len(a) = Len(b)
    /\ \A i \in 1..Len(a) : SameLetter(a[i], b[i])

\* a < b as integers, for amounts <<hi, lo>> of value hi * 10^9 + lo
WeiLess(a, b) == a[1] < b[1] \/ (a[1] = b[1] /\ a[2] < b[2])

(***************************************************************************)
(* C11: for every transaction of the bounded sets, the purchase test is    *)
(* true iff tx.to is not null, equals the token address ignoring letter    *)
(* case, and tx.value is not below the minimum as an exact integer; it is  *)
(* false for a null tx.to whatever the value, true at exactly the minimum  *)
(* and false one wei below it.                                             *)
(***************************************************************************)
C11_MatchIffCriteria ==
    probe.verdict \in {"match", "no_match"} =>
        /\ (probe.verdict = "match") <=>
              (/\ probe.tx.to # NoAddress
               /\ SameIgnoringCase(probe.tx.to, TOKEN_CONTRACT_ADDRESS)
               /\ ~WeiLess(probe.tx.value, MIN_PURCHASE_WEI))
        /\ probe.tx.to = NoAddress => probe.verdict = "no_match"
        /\ (probe.tx.to = TOKEN_CONTRACT_ADDRESS /\ probe.tx.value = <<25000000, 0>>)
              => probe.verdict = "match"
        /\ probe.tx.value = <<24999999, 999999999>> => probe.verdict = "no_match"

\* a payment of exactly the minimum to the token address in another
\* spelling has been tested and matches
C11_Witness ==
    /\ probe.verdict = "match"
    /\ probe.tx.value = MIN_PURCHASE_WEI
    /\ probe.tx.to # TOKEN_CONTRACT_ADDRESS
    /\ probe.tx.to # Lower(TOKEN_CONTRACT_ADDRESS)

(***************************************************************************)
(* Vocabulary of cancellation.                                             *)
(***************************************************************************)
\* the awaits a started loop can be suspended in: the calls on the node,
\* the sends, the polling and interval sleeps, the sleep after an error
SuspendedStates ==
    {"connect", "mkfilter", "poll", "fetch", "send", "sleep", "backoff",
     "rsend", "rsleep"}

(***************************************************************************)
(* C12 as stated: when a loop whose cancellation was requested while it    *)
(* was suspended (in a call on the node, in a send, in the polling sleep   *)
(* or in the sleep after an error) ends, its coroutine has returned        *)
(* without raising, and the handler's test sees the loop as not running.   *)
(***************************************************************************)
C12_CancelIsClean ==
    [][\A t \in TaskIds :
          (tasks[t].cancel /\ tasks[t].pc \in SuspendedStates /\ Done(t)')
             => /\ tasks'[t].result = "stopped"
                /\ ~Running(t)']_vars

(***************************************************************************)
(* C13 as stated: when the stop of a reminder loop is requested before    *)
(* the first reminder interval of the loop has elapsed, the loop has sent  *)
(* no reminder message.                                                    *)
(***************************************************************************)
C13_NoReminderBeforeInterval ==
    \A t \in Live("reminder") :
        (tasks[t].cancel /\ ~tasks[t].elapsed) => ~tasks[t].reminded

(***************************************************************************)
(* Vocabulary of the configuration.                                        *)
(***************************************************************************)
\* the environment holds no value, or an empty one, for a variable
Missing(v) == v = None \/ v = << >>

\* a node endpoint that is no WebSocket URL
MalformedUrl(v) == ~Missing(v) /\ ~StartsWith(v, << "w", "s", "s", ":", "/", "/" >>)

\* a required value is missing or malformed in the environment
BadConfiguration ==
    \/ Missing(env.TELEGRAM_BOT_TOKEN)
    \/ Missing(env.TELEGRAM_CHAT_ID)
    \/ Missing(env.QUICKNODE_BSC_URL)
    \/ MalformedUrl(env.QUICKNODE_BSC_URL)

(***************************************************************************)
(* C14 as stated: when a required configuration value (credential,        *)
(* channel, node endpoint) is missing or malformed, the control surface is *)
(* never served, no handler runs and no loop is ever started.              *)
(***************************************************************************)
C14_BadConfigurationAborts ==
    BadConfiguration => (~Serving /\ handlers = EmptyBag /\ tasks = << >>)

(***************************************************************************)
(* C15 as stated: every start/stop control event whose handler has chosen  *)
(* its status (starting, already running, stopped, not running) ends with  *)
(* that status delivered to the control surface, also when the status      *)
(* message fails to be sent.                                               *)
(***************************************************************************)
C15_DefiniteStatusDelivered ==
    [][\A h \in InFlight :
          Ends(h)
             => /\ last'[LoopOf(h.action)].status \in Statuses
                /\ last'[LoopOf(h.action)].outcome = "delivered"]_vars

\* the height of the node head when task t created its block filter
FilterHead(t) ==
    CHOOSE f \in 0..Len(chain) : Did(t, <<"filter", f, 0>>)

\* the n-th event of the trace of task t is the scan of a fetched block
IsFetched(t, n) == tasks[t].trace[n][1] = "fetched"

(***************************************************************************)
(* C16 as stated: the blocks an alert loop has processed (fetched and      *)
(* scanned) are, in the order of processing, strictly increasing in height *)
(* and without a gap from the node head at the creation of its filter.     *)
(***************************************************************************)
C16_ProcessedGapFree ==
    \A t \in LiveAlerts :
        /\ \A n \in 1..Len(tasks[t].trace) : \A m \in 1..Len(tasks[t].trace) :
              (n < m /\ IsFetched(t, n) /\ IsFetched(t, m))
                 => tasks[t].trace[n][2] < tasks[t].trace[m][2]
        /\ \A h \in Heights :
              Did(t, <<"fetched", h, 0>>)
                 => \A g \in (FilterHead(t) + 1)..(h - 1) : Did(t, <<"fetched", g, 0>>)

\* this step is the failure of the connection check of task t: the check
\* answers False or raises
ConnectionCheckFails(t) ==
    /\ t \in TaskIds
    /\ tasks[t].pc = "connect"
    /\ tasks'[t].pc # "connect"
    /\ ~tasks[t].cancel
    /\ events' = events + 1

(***************************************************************************)
(* C17: when the connection check at the start of an alert loop fails, the *)
(* loop ends there: it has fetched no block and sent no notification, its  *)
(* task is done and the handler's test sees it as not running; a later     *)
(* start of the alert loop that finds this task in the handle reports      *)
(* "starting", not "already running", and when its status message returns  *)
(* it creates a new instance and stores it in the handle.                  *)
(***************************************************************************)
C17_FailedConnectNotStarted ==
    [][/\ \A t \in TaskIds :
             ConnectionCheckFails(t)
                => /\ tasks[t].trace = << >>
                   /\ Done(t)'
                   /\ tasks'[t].result \in {"refused", "raised"}
                   /\ tasks'[t].trace = << >>
                   /\ ~Running(t)'
       /\ \A s \in Statuses :
             (/\ Arrives("start_monitoring", s)
              /\ monitoring_task # 0
              /\ tasks[monitoring_task].result \in {"refused", "raised"})
                => s = "starting"
       /\ \A h \in InFlight :
             (Ends(h) /\ h.action = "start_monitoring" /\ h.status = "starting"
                     /\ last'["alert"].outcome = "delivered")
                => /\ Len(tasks') = Len(tasks) + 1
                   /\ monitoring_task' = Len(tasks')
                   /\ monitoring_task' \in Live("alert")']_vars

\* after a refused connection a second start has created a fresh instance
C17_Witness ==
    /\ monitoring_task # 0
    /\ monitoring_task \in Live("alert")
    /\ \E t \in TaskIds :
          /\ t # monitoring_task
          /\ tasks[t].kind = "alert"
          /\ tasks[t].result = "refused"
    /\ last["alert"] = Ended("start_monitoring", "starting", "delivered", monitoring_task)

(***************************************************************************)
(* C18 as stated: when an alert loop moves on from a block it has fetched  *)
(* (to the fetch of the next block or to the next poll), a send has been   *)
(* issued for every matching transaction of that block.                    *)
(***************************************************************************)
C18_MovesOnAfterAllSends ==
    [][\A t \in LiveAlerts : \A h \in Heights :
          (/\ ~Did(t, <<"left", h, 0>>)
           /\ Did(t, <<"left", h, 0>>)'
           /\ Did(t, <<"fetched", h, 0>>)')
             => \A i \in 1..Len(BlockTxs(h)) :
                   Matches(BlockTxs(h)[i]) => Did(t, <<"send", h, i>>)']_vars

(***************************************************************************)
(* C19 as stated: every live instance of a loop is the task its handle     *)
(* refers to, so that a stop reaches every live instance and none is       *)
(* orphaned by an overwritten handle.                                      *)
(***************************************************************************)
C19_HandleRefersToLive ==
    \A k \in Loops : \A t \in Live(k) : Handle(k) = t

\* the awaits in which a loop is suspended inside a call on the node or on
\* Telegram (not in asyncio.sleep, and not before its first step)
LibraryAwaits == {"connect", "mkfilter", "poll", "fetch", "send", "rsend"}

\* the click a is a start that arrives right after a stop of the same loop
\* that delivered "stopped": no control event of the loop ended in between
\* and none is in flight
StartAfterStop(a) ==
    /\ a \in StartActions
    /\ ~Busy(LoopOf(a))
    /\ last[LoopOf(a)].action \in StopActions
    /\ last[LoopOf(a)].status = "stopped"
    /\ last[LoopOf(a)].outcome = "delivered"

(***************************************************************************)
(* C20 as stated: a start that arrives after a stop of the same loop has   *)
(* delivered "stopped" reports "starting", not "already running", also     *)
(* when the cancelled task (suspended in a call on the node or on Telegram *)
(* when it was cancelled) has not reached its done state.                  *)
(***************************************************************************)
C20_RestartAfterStop ==
    [][\A a \in StartActions : \A s \in Statuses :
          (/\ StartAfterStop(a)
           /\ Arrives(a, s)
           /\ Handle(LoopOf(a)) # 0
           /\ tasks[Handle(LoopOf(a))].pc \in LibraryAwaits \cup {"done"})
             => s = "starting"]_vars

====
